---- MODULE Spec2Model ----
(***************************************************************************)
(* A model of app.py, the Streamlit page "FMEA & Root Cause Analysis".     *)
(*                                                                         *)
(* The page is a script that Streamlit runs from top to bottom once per    *)
(* user action (first load, an edit of the text area, a press of the run   *)
(* button).  One run reads the Ollama configuration from st.secrets,       *)
(* renders the text area, builds llm_config and the two autogen agents,    *)
(* renders the button and, when the button was pressed, runs the agent     *)
(* exchange and renders its last message raw and parsed as YAML.           *)
(*                                                                         *)
(* Texts whose characters matter (the transcript, the argument of strip)   *)
(* are sequences of one-character strings.  Texts that are only passed on  *)
(* (secret values, the prompt) are TLA+ strings.                           *)
(***************************************************************************)
EXTENDS Integers, Sequences, FiniteSets, TLC

VARIABLES
    secrets,        \* st.secrets: the secret store of the session
    run,            \* number of script runs started so far in the session
    pressed,        \* whether the current run was triggered by the run button
    widget_text,    \* the text area's value held by the browser session
    pc,             \* position of the current script run
    ui,             \* elements the current run has rendered, in order
    ollama_host,    \* module variable ollama_host (<<>> while unbound)
    ollama_model,   \* module variable ollama_model (<<>> while unbound)
    requirements,   \* module variable requirements (<<>> while unbound)
    llm_config,     \* module variable llm_config (<<>> while unbound)
    assistant,      \* module variable assistant (<<>> while unbound)
    user_proxy,     \* module variable user_proxy (<<>> while unbound)
    exchanges,      \* calls of user_proxy.initiate_chat made by the current run
    auto_replies,   \* user_proxy's consecutive auto reply counter
    human_inputs,   \* times the exchange asked a human for input in this run
    received,       \* the message user_proxy is handling (<<>> if none)
    chat_last,      \* chat_history[-1] of the exchange (<<>> if empty)
    fmea_content,   \* local fmea_content of the button handler (<<>> if unbound)
    yaml_input,     \* the argument handed to yaml.safe_load (<<>> if not called)
    fmea_data,      \* local fmea_data of the button handler (<<>> if unbound)
    after_failure   \* history: the previous run ended with a failed exchange

vars == <<secrets, run, pressed, widget_text, pc, ui, ollama_host,
          ollama_model, requirements, llm_config, assistant, user_proxy,
          exchanges, auto_replies, human_inputs, received, chat_last,
          fmea_content, yaml_input, fmea_data, after_failure>>

-----------------------------------------------------------------------------
(* Bounds of the model.                                                    *)

\* Script runs per session (first load plus user-triggered reruns).
MaxRuns == 3

\* Length of the body of a transcript text, between its fence markers.
MaxBodyLen == 3

-----------------------------------------------------------------------------
(* Python strings as sequences of characters.                              *)

Range(s) == {s[i] : i \in 1..Len(s)}

\* Characters str.strip() without argument removes.
Whitespace == {" ", "\n", "\t"}

\* s[i:j] of Python with 1-based inclusive bounds; empty when i > j.
Slice(s, i, j) == IF i > j THEN <<>> ELSE SubSeq(s, i, j)

\* str.strip(chars): the longest prefix and the longest suffix made of
\* characters of the SET chars are removed.
PyStripSet(s, C) ==
    LET keep == {i \in 1..Len(s) : s[i] \notin C}
    IN  IF keep = {} THEN <<>>
        ELSE LET lo == CHOOSE i \in keep : \A j \in keep : i <= j
                 hi == CHOOSE i \in keep : \A j \in keep : j <= i
             IN  Slice(s, lo, hi)

\* str.strip()
PyStrip(s) == PyStripSet(s, Whitespace)

\* str.strip(arg) with a string argument: the argument is read as a set of
\* characters, not as a marker.
PyStripChars(s, arg) == PyStripSet(s, Range(arg))

\* s.split("\n")
RECURSIVE SplitLines(_)
SplitLines(s) ==
    IF \A i \in 1..Len(s) : s[i] # "\n" THEN <<s>>
    ELSE LET n == CHOOSE i \in 1..Len(s) :
                      s[i] = "\n" /\ \A j \in 1..(i - 1) : s[j] # "\n"
         IN  <<Slice(s, 1, n - 1)>> \o SplitLines(Slice(s, n + 1, Len(s)))

\* The backquote character U+0060, written by name.
BQ == "BACKQUOTE"

\* The literals of lines 121 and 148, and the closing fence marker.
FENCE_YAML == <<BQ, BQ, BQ, "y", "a", "m", "l">>
FENCE_JSON == <<BQ, BQ, BQ, "j", "s", "o", "n">>
FENCE == <<BQ, BQ, BQ>>
TAG_JSON == <<"j", "s", "o", "n">>
NL == <<"\n">>

-----------------------------------------------------------------------------
(* The secret store.  A TOML value is a table or a scalar string; st.secrets *)
(* is the top-level table.                                                 *)

NoItems == [k \in {} |-> 0]
Table(f) == [kind |-> "table", items |-> f, str |-> ""]
Scalar(s) == [kind |-> "str", items |-> NoItems, str |-> s]

HostValues == {"", "http://localhost:11434"}
ModelValues == {"", "mistral"}

\* The [ollama] tables: each of the two keys absent or bound to a string.
OllamaTables ==
    {Table([k \in ks |-> Scalar(IF k = "OLLAMA_HOST" THEN h ELSE m)]) :
        <<ks, h, m>> \in
            {t \in (SUBSET {"OLLAMA_HOST", "OLLAMA_MODEL"}) \X HostValues \X ModelValues :
                /\ ("OLLAMA_HOST" \notin t[1] => t[2] = "")
                /\ ("OLLAMA_MODEL" \notin t[1] => t[3] = "")}}

\* The stores: no "ollama" entry, "ollama" bound to a scalar (ollama = "mistral"
\* at the top level: a key, but no group), or "ollama" a group.
SecretStores ==
    {Table(NoItems), Table([k \in {"ollama"} |-> Scalar("mistral")])}
    \cup {Table([k \in {"ollama"} |-> t]) : t \in OllamaTables}

\* obj[key] of Python: a mapping raises KeyError on a missing key, a str
\* indexed by a str raises TypeError.
Subscript(obj, key) ==
    IF obj.kind = "table"
    THEN IF key \in DOMAIN obj.items
         THEN [exc |-> "", val |-> obj.items[key]]
         ELSE [exc |-> "KeyError", val |-> Scalar("")]
    ELSE [exc |-> "TypeError", val |-> Scalar("")]

\* obj[k1][k2]: the second subscript is evaluated only if the first returned.
Subscript2(obj, k1, k2) ==
    LET a == Subscript(obj, k1)
    IN  IF a.exc # "" THEN a ELSE Subscript(a.val, k2)

\* The value a leaf of the store hands to Python.
PyValue(obj) == obj.str

-----------------------------------------------------------------------------
(* Rendered elements.  An element is its kind and its body; a body is a    *)
(* sequence of strings (the pieces of a message, or the characters of a    *)
(* text).  The structure st.json shows is the value of fmea_data.          *)

El(kind, body) == [el |-> kind, body |-> body]

Shown(kind) == \E i \in 1..Len(ui) : ui[i].el = kind

BodyOf(kind) == (CHOOSE e \in Range(ui) : e.el = kind).body

\* Position of the first element of the kind (0 when there is none).
PosOf(kind) ==
    IF Shown(kind)
    THEN CHOOSE i \in 1..Len(ui) :
             ui[i].el = kind /\ \A j \in 1..(i - 1) : ui[j].el # kind
    ELSE 0

\* A message names a key when the key is one of its pieces.
Names(msg, key) == key \in Range(msg)

-----------------------------------------------------------------------------
(* 2. Configuration & Secrets Handling                                     *)

\* The f-string of the KeyError branch, cut into pieces at the names it
\* quotes (the backquotes around the names are left out of the pieces).
MissingConfigMessage ==
    <<"Missing Ollama configuration in Streamlit secrets.toml. Please add a [",
      "ollama", "] section with ", "OLLAMA_HOST", " and ", "OLLAMA_MODEL",
      ".\n\nExample:\ntoml\n[", "ollama", "]\n", "OLLAMA_HOST",
      " = \"http://localhost:11434\"\n", "OLLAMA_MODEL", " = \"mistral\"\n">>

\* str(e) of the exceptions other than KeyError the two subscripts raise.
ExcText(exc) ==
    IF exc = "TypeError" THEN "string indices must be integers, not 'str'"
    ELSE exc

\* The f-string of the "except Exception" branch.
UnexpectedMessage(exc) ==
    <<"An unexpected error occurred while reading secrets: ", ExcText(exc)>>

\* get_ollama_config(): the pair it returns, or the st.error it shows before
\* st.stop().  The second subscript chain runs only if the first returned.
get_ollama_config(store) ==
    LET h == Subscript2(store, "ollama", "OLLAMA_HOST")
        m == Subscript2(store, "ollama", "OLLAMA_MODEL")
        exc == IF h.exc # "" THEN h.exc ELSE m.exc
    IN  IF exc = ""
        THEN [returned |-> TRUE, host |-> PyValue(h.val),
              model |-> PyValue(m.val), error |-> <<>>]
        ELSE IF exc = "KeyError"
        THEN [returned |-> FALSE, host |-> "", model |-> "",
              error |-> MissingConfigMessage]
        ELSE [returned |-> FALSE, host |-> "", model |-> "",
              error |-> UnexpectedMessage(exc)]

-----------------------------------------------------------------------------
(* 3. User Input & Agent Initialization                                    *)

default_prompt == "Perform a Failure Mode and Effects Analysis (FMEA) for a car brake system. ..."

\* The texts a user leaves in the text area.
TextInputs == {default_prompt, "FMEA for a pump."}

\* A variant of the dict literal with the two values in each other's place.
MakeLlmConfigSwapped(host, model) ==
    [config_list |-> <<[model |-> host, api_key |-> "not-needed", base_url |-> model]>>]

\* The dict literal of llm_config.
MakeLlmConfig(host, model) ==
    [config_list |-> <<[model |-> model, api_key |-> "not-needed", base_url |-> host]>>]

\* autogen.AssistantAgent(name=..., system_message=..., llm_config=llm_config)
MakeAssistant(cfg) == [name |-> "FMEA_Expert", llm_config |-> cfg]

\* max_consecutive_auto_reply of user_proxy
max_consecutive_auto_reply == 10

\* autogen.UserProxyAgent(name="User", human_input_mode="NEVER", ...)
MakeUserProxy ==
    [name |-> "User", human_input_mode |-> "NEVER",
     max_consecutive_auto_reply |-> max_consecutive_auto_reply]

-----------------------------------------------------------------------------
(* The script, one action per statement group.                             *)

Unbound == <<>>

Init ==
    /\ secrets \in SecretStores
    /\ run = 1
    /\ pressed = FALSE
    /\ widget_text = default_prompt
    /\ pc = "header"
    /\ ui = <<>>
    /\ ollama_host = Unbound
    /\ ollama_model = Unbound
    /\ requirements = Unbound
    /\ llm_config = Unbound
    /\ assistant = Unbound
    /\ user_proxy = Unbound
    /\ exchanges = 0
    /\ auto_replies = 0
    /\ human_inputs = 0
    /\ received = Unbound
    /\ chat_last = Unbound
    /\ fmea_content = Unbound
    /\ yaml_input = Unbound
    /\ fmea_data = Unbound
    /\ after_failure = FALSE

\* st.set_page_config, st.title, st.markdown, st.markdown("---")
PageHeader ==
    /\ pc = "header"
    /\ ui' = <<El("title", <<>>), El("markdown", <<>>), El("divider", <<>>)>>
    /\ pc' = "config"
    /\ UNCHANGED <<secrets, run, pressed, widget_text, ollama_host, ollama_model,
                   requirements, llm_config, assistant, user_proxy, exchanges,
                   auto_replies, human_inputs, received, chat_last,
                   fmea_content, yaml_input, fmea_data, after_failure>>

\* ollama_host, ollama_model = get_ollama_config()
GetOllamaConfig ==
    /\ pc = "config"
    /\ LET r == get_ollama_config(secrets)
       IN  \/ /\ r.returned
              /\ ollama_host' = <<r.host>>
              /\ ollama_model' = <<r.model>>
              /\ pc' = "text_area"
              /\ UNCHANGED ui
           \/ /\ ~r.returned
              /\ ui' = Append(ui, El("error", r.error))
              /\ pc' = "stopped"
              /\ UNCHANGED <<ollama_host, ollama_model>>
    /\ UNCHANGED <<secrets, run, pressed, widget_text, requirements, llm_config,
                   assistant, user_proxy, exchanges, auto_replies, human_inputs,
                   received, chat_last, fmea_content, yaml_input, fmea_data,
                   after_failure>>

\* requirements = st.text_area(..., value=default_prompt, height=200)
TextArea ==
    /\ pc = "text_area"
    /\ requirements' = <<widget_text>>
    /\ ui' = Append(ui, El("text_area", <<>>))
    /\ pc' = "llm_config"
    /\ UNCHANGED <<secrets, run, pressed, widget_text, ollama_host, ollama_model,
                   llm_config, assistant, user_proxy, exchanges, auto_replies,
                   human_inputs, received, chat_last, fmea_content, yaml_input,
                   fmea_data, after_failure>>

\* llm_config = {...}; assistant = autogen.AssistantAgent(...);
\* user_proxy = autogen.UserProxyAgent(...)
InitAgents ==
    /\ pc = "llm_config"
    /\ llm_config' = <<MakeLlmConfig(ollama_host[1], ollama_model[1])>>
    /\ assistant' = <<MakeAssistant(llm_config'[1])>>
    /\ user_proxy' = <<MakeUserProxy>>
    /\ pc' = "button"
    /\ UNCHANGED <<secrets, run, pressed, widget_text, ui, ollama_host,
                   ollama_model, requirements, exchanges, auto_replies,
                   human_inputs, received, chat_last, fmea_content, yaml_input,
                   fmea_data, after_failure>>

\* A variant of Button that enters the handler whether or not the button
\* was pressed.
ButtonAlwaysRuns ==
    /\ pc = "button"
    /\ ui' = ui \o <<El("button", <<>>), El("spinner", <<>>)>>
    /\ pc' = "initiate_chat"
    /\ UNCHANGED <<secrets, run, pressed, widget_text, ollama_host, ollama_model,
                   requirements, llm_config, assistant, user_proxy, exchanges,
                   auto_replies, human_inputs, received, chat_last,
                   fmea_content, yaml_input, fmea_data, after_failure>>

\* if st.button("Run FMEA Analysis", key="run_fmea"): with st.spinner(...):
Button ==
    /\ pc = "button"
    /\ \/ /\ pressed
          /\ ui' = ui \o <<El("button", <<>>), El("spinner", <<>>)>>
          /\ pc' = "initiate_chat"
       \/ /\ ~pressed
          /\ ui' = Append(ui, El("button", <<>>))
          /\ pc' = "done"
    /\ UNCHANGED <<secrets, run, pressed, widget_text, ollama_host, ollama_model,
                   requirements, llm_config, assistant, user_proxy, exchanges,
                   auto_replies, human_inputs, received, chat_last,
                   fmea_content, yaml_input, fmea_data, after_failure>>

-----------------------------------------------------------------------------
(* The agent exchange.  The expert's replies come from the model server;   *)
(* the model draws them from Transcripts.  A message is the dict autogen   *)
(* hands to is_termination_msg and keeps in chat_history; the content of a *)
(* reply is its text as characters, the content of the opening message is  *)
(* the prompt as one piece.                                                *)

Msg(content, role) == [content |-> content, role |-> role]

\* The characters of a key of a message dict.
KeyChars(k) ==
    IF k = "content" THEN <<"c", "o", "n", "t", "e", "n", "t">>
    ELSE <<"r", "o", "l", "e">>

\* needle in d, for a dict d: a test on the keys of d.
DictContains(d, needle) == \E k \in DOMAIN d : KeyChars(k) = needle

\* is_termination_msg=lambda x: "```yaml" in x or "```json" in x
\* autogen calls it with x the received message, a dict.
is_termination_msg(x) == DictContains(x, FENCE_YAML) \/ DictContains(x, FENCE_JSON)

Opens == {<<>>, FENCE_YAML \o NL, FENCE_JSON \o NL, FENCE_YAML}
Closes == {<<>>, NL \o FENCE, FENCE, NL \o FENCE \o NL}
BodyChars == {"a", "k", ":"}
Bodies == UNION {[1..n -> BodyChars] : n \in 0..MaxBodyLen}

\* The texts a reply of the expert can be: a body, bare or between fences.
Transcripts == {o \o b \o c : <<o, b, c>> \in Opens \X Bodies \X Closes}

\* Failures of the call to the model server.
ExchangeErrors == {"APIConnectionError", "AuthenticationError", "NotFoundError"}

\* Variants of the except clause: one that names the client library's
\* errors only, one that names yaml.YAMLError only.
HandlerCatchesOnlyApiErrors(e) == e \in ExchangeErrors
HandlerCatchesOnlyYaml(e) == e = "YAMLError"

\* The classes "except Exception" catches: every exception of the model
\* (BaseException's other subclasses, such as KeyboardInterrupt, are not).
HandlerCatches(e) == e \notin {"KeyboardInterrupt", "SystemExit", "GeneratorExit"}

\* What Streamlit shows for an exception that leaves the script.
Uncaught(e) == <<El("exception", <<e>>)>>

\* except Exception as e: st.error(...); st.warning(...); st.code(...)
ExceptElements(e) ==
    <<El("error", <<"An error occurred during agent execution: ", e>>),
      El("warning", <<"Please ensure that the specified Ollama model is downloaded and running.">>),
      El("code:example", <<"Example: ollama run mistral">>)>>

\* response = user_proxy.initiate_chat(assistant, message=requirements):
\* the counter is reset and the opening message is sent.
InitiateChat ==
    /\ pc = "initiate_chat"
    /\ exchanges' = exchanges + 1
    /\ auto_replies' = 0
    /\ chat_last' = <<Msg(requirements, "user")>>
    /\ pc' = "assistant_turn"
    /\ UNCHANGED <<secrets, run, pressed, widget_text, ui, ollama_host,
                   ollama_model, requirements, llm_config, assistant,
                   user_proxy, human_inputs, received, fmea_content,
                   yaml_input, fmea_data, after_failure>>

\* A variant of AssistantReply in which the handler calls initiate_chat
\* once more after a failed call before it gives up.
AssistantReplyRetrying ==
    /\ pc = "assistant_turn"
    /\ \/ \E t \in Transcripts :
            /\ received' = <<Msg(t, "assistant")>>
            /\ chat_last' = <<Msg(t, "assistant")>>
            /\ pc' = "proxy_turn"
            /\ UNCHANGED ui
       \/ \E e \in ExchangeErrors :
            /\ ui' = IF exchanges < 2 THEN ui ELSE ui \o ExceptElements(e)
            /\ pc' = IF exchanges < 2 THEN "initiate_chat" ELSE "done"
            /\ UNCHANGED <<received, chat_last>>
    /\ UNCHANGED <<secrets, run, pressed, widget_text, ollama_host, ollama_model,
                   requirements, llm_config, assistant, user_proxy, exchanges,
                   auto_replies, human_inputs, fmea_content, yaml_input,
                   fmea_data, after_failure>>

\* The expert answers the last message through the server at
\* llm_config's base_url, or the call raises and the handler's except
\* clause renders the failure.
AssistantReply ==
    /\ pc = "assistant_turn"
    /\ \/ \E t \in Transcripts :
            /\ received' = <<Msg(t, "assistant")>>
            /\ chat_last' = <<Msg(t, "assistant")>>
            /\ pc' = "proxy_turn"
            /\ UNCHANGED ui
       \/ \E e \in ExchangeErrors :
            /\ ui' = ui \o (IF HandlerCatches(e) THEN ExceptElements(e)
                                                 ELSE Uncaught(e))
            /\ pc' = IF HandlerCatches(e) THEN "done" ELSE "crashed"
            /\ UNCHANGED <<received, chat_last>>
    /\ UNCHANGED <<secrets, run, pressed, widget_text, ollama_host, ollama_model,
                   requirements, llm_config, assistant, user_proxy, exchanges,
                   auto_replies, human_inputs, fmea_content, yaml_input,
                   fmea_data, after_failure>>

\* Whether user_proxy stops at the received message: the cap on consecutive
\* auto replies is tested first, then is_termination_msg.
ProxyStops ==
    \/ auto_replies >= user_proxy[1].max_consecutive_auto_reply
    \/ is_termination_msg(received[1])

\* Human input is asked at every turn in mode ALWAYS, at a stop in mode
\* TERMINATE, never in mode NEVER.
AsksHuman(mode, stops) == mode = "ALWAYS" \/ (mode = "TERMINATE" /\ stops)

\* user_proxy receives the reply: it ends the exchange, or counts one more
\* auto reply and sends it (the default auto reply, an empty text).
ProxyReceive ==
    /\ pc = "proxy_turn"
    /\ human_inputs' =
           IF AsksHuman(user_proxy[1].human_input_mode, ProxyStops)
           THEN human_inputs + 1 ELSE human_inputs
    /\ IF ProxyStops
       THEN /\ pc' = "render"
            /\ auto_replies' = 0
            /\ UNCHANGED chat_last
       ELSE /\ pc' = "assistant_turn"
            /\ auto_replies' = auto_replies + 1
            /\ chat_last' = <<Msg(<<>>, "user")>>
    /\ received' = Unbound
    /\ UNCHANGED <<secrets, run, pressed, widget_text, ui, ollama_host,
                   ollama_model, requirements, llm_config, assistant,
                   user_proxy, exchanges, fmea_content, yaml_input,
                   fmea_data, after_failure>>

-----------------------------------------------------------------------------
(* yaml.safe_load on the texts of the model: lines of plain characters     *)
(* (no blank inside a line, no quote, no flow or block indicator).  In     *)
(* such a text a line that ends with a colon is a mapping entry with a     *)
(* null value (the colon needs a key before it), any other line is a plain *)
(* scalar, several scalar lines fold into one scalar, a scalar line and an *)
(* entry do not mix, and a backquote cannot start a token.                 *)

YamlNull == [ok |-> TRUE, t |-> "null", s |-> <<>>, keys |-> {}]
YamlStr(s) == [ok |-> TRUE, t |-> "str", s |-> s, keys |-> {}]
\* A mapping from the keys to null.
YamlMap(keys) == [ok |-> TRUE, t |-> "map", s |-> <<>>, keys |-> keys]
YamlError == [ok |-> FALSE, t |-> "error", s |-> <<>>, keys |-> {}]

IsEntry(line) == line[Len(line)] = ":"

EntryKey(line) == Slice(line, 1, Len(line) - 1)

\* The lines of a multi-line plain scalar, folded with single blanks.
RECURSIVE Fold(_)
Fold(lines) ==
    IF Len(lines) = 1 THEN lines[1]
    ELSE lines[1] \o <<" ">> \o Fold(Tail(lines))

SafeLoad(text) ==
    LET lines == SelectSeq(SplitLines(text), LAMBDA l : l # <<>>)
        n == Len(lines)
    IN  IF n = 0 THEN YamlNull
        ELSE IF \E i \in 1..n : lines[i][1] = BQ \/ lines[i] = <<":">> THEN YamlError
        ELSE IF \A i \in 1..n : IsEntry(lines[i])
        THEN YamlMap({EntryKey(lines[i]) : i \in 1..n})
        ELSE IF \A i \in 1..n : ~IsEntry(lines[i])
        THEN YamlStr(Fold(lines))
        ELSE YamlError

-----------------------------------------------------------------------------
(* 4. Main Application Logic: the rest of the button handler.              *)

\* A variant of the argument that also lists the characters of "json".
StripArgBoth == FENCE_YAML \o TAG_JSON

\* The argument of the middle strip call of line 148.
StripArg == FENCE_YAML

\* fmea_content.strip().strip("```yaml").strip()
StripFence(content) == PyStrip(PyStripChars(PyStrip(content), StripArg))

\* What the handler renders once the exchange has returned: the raw block,
\* then the parsed structure, or the except clause's elements when
\* yaml.safe_load raises.
RenderedAfterExchange(content) ==
    <<El("subheader:raw", <<"Raw Output">>), El("code:raw", content),
      El("subheader:parsed", <<"Parsed & Formatted Output">>)>>
    \o (IF SafeLoad(StripFence(content)).ok THEN <<El("json", <<>>)>>
        ELSE IF HandlerCatches("YAMLError") THEN ExceptElements("YAMLError")
        ELSE Uncaught("YAMLError"))

\* fmea_content = response.chat_history[-1]["content"]; st.subheader;
\* st.code; st.subheader; fmea_data = yaml.safe_load(...); st.json(fmea_data),
\* with the except clause on a parse failure.
RenderResult ==
    /\ pc = "render"
    /\ fmea_content' = <<chat_last[1].content>>
    /\ yaml_input' = <<StripFence(chat_last[1].content)>>
    /\ fmea_data' = IF SafeLoad(yaml_input'[1]).ok
                    THEN <<SafeLoad(yaml_input'[1])>> ELSE Unbound
    /\ ui' = ui \o RenderedAfterExchange(chat_last[1].content)
    /\ pc' = IF SafeLoad(yaml_input'[1]).ok \/ HandlerCatches("YAMLError")
             THEN "done" ELSE "crashed"
    /\ UNCHANGED <<secrets, run, pressed, widget_text, ollama_host, ollama_model,
                   requirements, llm_config, assistant, user_proxy, exchanges,
                   auto_replies, human_inputs, received, chat_last,
                   after_failure>>

-----------------------------------------------------------------------------
(* How a run ended, read off the page.                                     *)

RenderedParsed == pc = "done" /\ Shown("json")
RenderedRawOnly == pc = "done" /\ Shown("code:raw") /\ ~Shown("json")
Failed == pc = "done" /\ Shown("warning") /\ ~Shown("code:raw")
ConfigError == pc = "stopped"

-----------------------------------------------------------------------------
(* User actions.  Each starts a new run of the script from its first line, *)
(* with fresh module variables and an empty page.                          *)

Rerun(isPress, text) ==
    /\ pc \in {"done", "stopped", "crashed"}
    /\ run < MaxRuns
    /\ run' = run + 1
    /\ pressed' = isPress
    /\ widget_text' = text
    /\ after_failure' = Failed
    /\ pc' = "header"
    /\ ui' = <<>>
    /\ ollama_host' = Unbound
    /\ ollama_model' = Unbound
    /\ requirements' = Unbound
    /\ llm_config' = Unbound
    /\ assistant' = Unbound
    /\ user_proxy' = Unbound
    /\ exchanges' = 0
    /\ auto_replies' = 0
    /\ human_inputs' = 0
    /\ received' = Unbound
    /\ chat_last' = Unbound
    /\ fmea_content' = Unbound
    /\ yaml_input' = Unbound
    /\ fmea_data' = Unbound
    /\ UNCHANGED secrets

\* The user presses "Run FMEA Analysis": possible when the button is on the page.
PressButton == Shown("button") /\ Rerun(TRUE, widget_text)

\* The user changes the text area: possible when the text area is on the page.
EditText ==
    /\ Shown("text_area")
    /\ \E t \in TextInputs \ {widget_text} : Rerun(FALSE, t)

\* The user reloads the page: a new session, the text area back to its default.
Reload == Rerun(FALSE, default_prompt)

Next ==
    \/ PageHeader
    \/ GetOllamaConfig
    \/ TextArea
    \/ InitAgents
    \/ Button
    \/ InitiateChat
    \/ AssistantReply
    \/ ProxyReceive
    \/ RenderResult
    \/ PressButton
    \/ EditText
    \/ Reload

Spec == Init /\ [][Next]_vars

-----------------------------------------------------------------------------
(* Properties.                                                             *)

\* Vocabulary of the properties on texts.
StartsWith(s, p) == Len(p) <= Len(s) /\ SubSeq(s, 1, Len(p)) = p

EndsWith(s, p) ==
    Len(p) <= Len(s) /\ SubSeq(s, Len(s) - Len(p) + 1, Len(s)) = p

\* sub in s, for two strings
Contains(s, sub) ==
    \E i \in 0..(Len(s) - Len(sub)) : SubSeq(s, i + 1, i + Len(sub)) = sub

\* What the store holds, read off the store itself.
HasGroup(store) ==
    "ollama" \in DOMAIN store.items /\ store.items["ollama"].kind = "table"

Complete(store) ==
    /\ HasGroup(store)
    /\ {"OLLAMA_HOST", "OLLAMA_MODEL"} \subseteq DOMAIN store.items["ollama"].items

StoredHost(store) == store.items["ollama"].items["OLLAMA_HOST"].str
StoredModel(store) == store.items["ollama"].items["OLLAMA_MODEL"].str

\* The run is past get_ollama_config.
PastConfig == pc \notin {"header", "config"}

\* The run halted at the configuration: nothing after line 77 happened.
HaltedAtConfig ==
    /\ pc = "stopped"
    /\ Shown("error")
    /\ ~Shown("text_area") /\ ~Shown("button")
    /\ assistant = Unbound /\ user_proxy = Unbound
    /\ exchanges = 0

\* C1: for every store in which the "ollama" group, OLLAMA_HOST or
\* OLLAMA_MODEL is missing, get_ollama_config shows an error that names both
\* OLLAMA_HOST and OLLAMA_MODEL and halts the run: no text area, no button,
\* no agent, no exchange.
C1_MissingConfigNamesKeysAndHalts ==
    (~Complete(secrets) /\ PastConfig) =>
        /\ HaltedAtConfig
        /\ Names(BodyOf("error"), "OLLAMA_HOST")
        /\ Names(BodyOf("error"), "OLLAMA_MODEL")

\* The part of C1 that holds of every store: an incomplete store halts the
\* run at the configuration, whatever the message says.
C1_MissingConfigHalts == (~Complete(secrets) /\ PastConfig) => HaltedAtConfig

\* C2: for every store that holds both keys, get_ollama_config returns the
\* stored pair unmodified, and the pair is the base_url and the model of the
\* llm_config handed to the expert agent.
C2_ConfigReturnedUnmodified ==
    (Complete(secrets) /\ PastConfig) =>
        /\ ollama_host = <<StoredHost(secrets)>>
        /\ ollama_model = <<StoredModel(secrets)>>
        /\ assistant # Unbound =>
               /\ assistant[1].llm_config.config_list[1].base_url = StoredHost(secrets)
               /\ assistant[1].llm_config.config_list[1].model = StoredModel(secrets)

C2_Witness ==
    /\ Complete(secrets)
    /\ StoredHost(secrets) # "" /\ StoredModel(secrets) # ""
    /\ assistant # Unbound
    /\ pc = "assistant_turn"

\* The text with only a leading "```yaml" marker, a trailing "```" marker and
\* the surrounding whitespace removed.
FenceStripped(text) ==
    LET s == PyStrip(text)
        a == IF StartsWith(s, FENCE_YAML) THEN Slice(s, Len(FENCE_YAML) + 1, Len(s)) ELSE s
        b == IF EndsWith(a, FENCE) THEN Slice(a, 1, Len(a) - Len(FENCE)) ELSE a
    IN  PyStrip(b)

\* C3: the string handed to the YAML parser is the final text with only the
\* fence markers and the surrounding whitespace removed, and whenever that
\* fence-stripped text is valid YAML the structure displayed is the one a
\* YAML parser produces from it.
C3_ParserGetsFenceStrippedText ==
    yaml_input # Unbound =>
        /\ yaml_input[1] = FenceStripped(fmea_content[1])
        /\ SafeLoad(FenceStripped(fmea_content[1])).ok =>
               /\ Shown("json")
               /\ fmea_data = <<SafeLoad(FenceStripped(fmea_content[1]))>>

\* The exchange of the run has returned a transcript.
ExchangeReturned == fmea_content # Unbound

\* C4: when the exchange returns and the stripped text is not valid YAML,
\* the parse failure is caught, an error banner is shown, and the raw block
\* rendered before the parse attempt is still on the page, with the text of
\* the last message in it.
C4_ParseFailureCaughtRawKept ==
    (ExchangeReturned /\ ~SafeLoad(yaml_input[1]).ok) =>
        /\ pc = "done"
        /\ ~Shown("exception")
        /\ Shown("error") /\ ~Shown("json")
        /\ Shown("code:raw")
        /\ BodyOf("code:raw") = chat_last[1].content
        /\ PosOf("code:raw") < PosOf("error")

C4_Witness ==
    /\ ExchangeReturned
    /\ ~SafeLoad(yaml_input[1]).ok
    /\ Shown("code:raw") /\ Shown("error")

\* The state of the request cycle, read off the position of the run and the
\* page.  A run that halts at the configuration never leaves Idle; a run
\* without a button press rests with the prompt built.
Phase ==
    IF pc \in {"header", "config", "stopped"} THEN "Idle"
    ELSE IF pc = "text_area" THEN "ConfigLoaded"
    ELSE IF pc \in {"llm_config", "button", "initiate_chat"} THEN "PromptBuilt"
    ELSE IF pc \in {"assistant_turn", "proxy_turn", "render"} THEN "ExchangeRunning"
    ELSE IF pc = "done" /\ exchanges = 0 THEN "PromptBuilt"
    ELSE IF RenderedParsed THEN "RenderedParsed"
    ELSE IF RenderedRawOnly THEN "RenderedRawOnly"
    ELSE IF Failed THEN "Failed"
    ELSE "None"

Rank(phase) ==
    IF phase = "Idle" THEN 0
    ELSE IF phase = "ConfigLoaded" THEN 1
    ELSE IF phase = "PromptBuilt" THEN 2
    ELSE IF phase = "ExchangeRunning" THEN 3
    ELSE IF phase \in {"RenderedParsed", "RenderedRawOnly", "Failed"} THEN 4
    ELSE 9

ExactlyOneOutcome ==
    \/ RenderedParsed /\ ~RenderedRawOnly /\ ~Failed
    \/ ~RenderedParsed /\ RenderedRawOnly /\ ~Failed
    \/ ~RenderedParsed /\ ~RenderedRawOnly /\ Failed

UserAction == PressButton \/ EditText \/ Reload

CycleStep ==
    /\ \/ Phase' = Phase
       \/ Rank(Phase') = Rank(Phase) + 1
       \/ UserAction /\ Phase' = "Idle"
    /\ (pressed' /\ pc' \in {"done", "stopped", "crashed"}) => ExactlyOneOutcome'

\* C5: a cycle moves through Idle, ConfigLoaded, PromptBuilt, ExchangeRunning
\* in that order, a state at a time, a cycle started by the button ends in
\* exactly one of RenderedParsed, RenderedRawOnly and Failed, and only a
\* user action takes the page back to an earlier state.
C5_LinearCycle == [][CycleStep]_vars

C5_Witness == run > 2 /\ pressed /\ RenderedRawOnly /\ after_failure

\* The call of initiate_chat of the run raised.
ExchangeRaised ==
    pc \in {"done", "crashed"} /\ exchanges > 0 /\ ~ExchangeReturned

\* The run has passed line 134.
PastInitiateChat == pc \in {"assistant_turn", "proxy_turn", "render", "done"}

\* C6: a failed exchange is caught: the run ends Failed with the error
\* banner and the hint, without raw or parsed output, after one call of
\* initiate_chat, with the button still on the page; and the run a later
\* press starts does call initiate_chat again.
C6_ExchangeFailureCaught ==
    /\ ExchangeRaised =>
           /\ Failed
           /\ Shown("error") /\ Shown("warning") /\ Shown("code:example")
           /\ ~Shown("exception")
           /\ ~Shown("code:raw") /\ ~Shown("json")
           /\ exchanges = 1
           /\ Shown("button") /\ Shown("text_area")
           /\ run < MaxRuns => ENABLED PressButton
    /\ (after_failure /\ pressed /\ PastInitiateChat) => exchanges = 1

C6_Witness == after_failure /\ pressed /\ pc = "assistant_turn" /\ exchanges = 1

\* The text holds one of the two fence markers.
HasMarker(text) == Contains(text, FENCE_YAML) \/ Contains(text, FENCE_JSON)

\* C7: the exchange stops as soon as user_proxy receives a message whose
\* text holds "```yaml" or "```json" (the termination predicate is true of
\* it), else after at most 10 consecutive auto replies, and never asks for
\* human input.
C7_StopsAtMarkerOrCap ==
    /\ (pc = "proxy_turn" /\ HasMarker(received[1].content)) =>
           /\ is_termination_msg(received[1])
           /\ ProxyStops
    /\ auto_replies <= 10
    /\ human_inputs = 0

\* The part of C7 that holds: the cap and the absence of human input.
C7_CapAndNoHumanInput ==
    /\ auto_replies <= max_consecutive_auto_reply
    /\ human_inputs = 0
    /\ (pc = "proxy_turn" /\ auto_replies = max_consecutive_auto_reply) => ProxyStops

\* C8: whenever an exchange has been started, the host URL and the model
\* identifier it uses are non-empty strings.
C8_ConfigNonEmptyAtExchange ==
    exchanges > 0 =>
        /\ assistant[1].llm_config.config_list[1].base_url # ""
        /\ assistant[1].llm_config.config_list[1].model # ""

\* C9: for a final text fenced with "```json" the strip step removes the
\* three backquotes and nothing more at the head: the string handed to the
\* parser begins with the tag "json", at the fourth character of the text.
C9_JsonTagLeftAtHead ==
    (yaml_input # Unbound /\ StartsWith(PyStrip(fmea_content[1]), FENCE_JSON)) =>
        /\ StartsWith(yaml_input[1], TAG_JSON)
        /\ yaml_input[1] =
               SubSeq(PyStrip(fmea_content[1]), Len(FENCE) + 1,
                      Len(FENCE) + Len(yaml_input[1]))

C9_Witness ==
    /\ yaml_input # Unbound
    /\ StartsWith(PyStrip(fmea_content[1]), FENCE_JSON)
    /\ Len(yaml_input[1]) > Len(TAG_JSON)
    /\ pc = "done"

\* C10: an exchange is started only in a run whose configuration loaded
\* and whose button was pressed, at most once; a run without a press builds
\* both agents, starts no exchange and renders no raw output, parsed output
\* or error banner.
C10_ExchangeOnlyOnPress ==
    /\ exchanges <= 1
    /\ exchanges > 0 => (pressed /\ Complete(secrets) /\ ollama_host # Unbound)
    /\ (pc = "done" /\ ~pressed) =>
           /\ assistant # Unbound /\ user_proxy # Unbound
           /\ exchanges = 0
           /\ ~Shown("code:raw") /\ ~Shown("json")
           /\ ~Shown("error") /\ ~Shown("warning")

C10_Witness ==
    /\ pc = "done" /\ ~pressed /\ run > 1
    /\ assistant # Unbound /\ user_proxy # Unbound

====
